---- MODULE Spec2Model ----
(***************************************************************************)
(* A model of the coriolis client's replica sub-commands                   *)
(* (coriolisclient/cli/replicas.py) and of the endpoint sample helpers     *)
(* (samples/endpoint_samples.py).                                          *)
(*                                                                         *)
(* Every command invocation is one action.  The remote service and the     *)
(* vault are mocks: each call the handler issues is appended, in order, to *)
(* `calls`; what the handler returns or raises is `outcome`; the arguments *)
(* it was invoked with are `inv`.                                          *)
(***************************************************************************)
EXTENDS Integers, Sequences, FiniteSets, TLC

VARIABLES
    inv,        \* the last invocation: its operation and its arguments
    calls,      \* the remote / vault calls that invocation issued, in order
    outcome,    \* what it returned ("ok") or raised ("error")
    vault,      \* the vault: the stored secrets, href = index
    endpoints,  \* the service's endpoints: the connection_info each was created with
    submitted   \* history: the raw payload each create_endpoint was given

vars == <<inv, calls, outcome, vault, endpoints, submitted>>

(***************************************************************************)
(* Bounds of the model.                                                    *)
(***************************************************************************)
MaxTokens == 1      \* --disk-storage-mapping / --storage-backend-mapping flags per command
MaxExecs == 3       \* executions of a replica
MaxReplicas == 2    \* replicas in a listing
MaxFields == 1      \* keys of a connection-info payload
MaxEndpoints == 1   \* endpoints created through create_endpoint

(***************************************************************************)
(* Python values.  tag: none | str | int | list | tuple | dict.            *)
(* A str or int carries its text; a list or tuple its elements; a dict its *)
(* items [k, v] in insertion order (keys unique).                          *)
(***************************************************************************)
PyNone == [tag |-> "none", text |-> "", vals |-> <<>>]
PyStr(s) == [tag |-> "str", text |-> s, vals |-> <<>>]
PyInt(s) == [tag |-> "int", text |-> s, vals |-> <<>>]
PyList(xs) == [tag |-> "list", text |-> "", vals |-> xs]
PyTuple(xs) == [tag |-> "tuple", text |-> "", vals |-> xs]
PyDict(items) == [tag |-> "dict", text |-> "", vals |-> items]
EmptyDict == PyDict(<<>>)

\* Python truthiness, as `if x:` evaluates it.
Truthy(v) ==
    CASE v.tag = "none" -> FALSE
      [] v.tag = "str" -> v.text # ""
      [] v.tag = "int" -> v.text # "0"
      [] OTHER -> v.vals # <<>>

Keys(d) == {d.vals[i].k : i \in 1..Len(d.vals)}
HasKey(d, key) == \E i \in 1..Len(d.vals) : d.vals[i].k = key
Lookup(d, key) == d.vals[CHOOSE i \in 1..Len(d.vals) : d.vals[i].k = key].v

\* d[key] = value
DictSet(d, key, value) ==
    IF HasKey(d, key)
    THEN PyDict([i \in 1..Len(d.vals) |->
                    IF d.vals[i].k = key THEN [k |-> key, v |-> value] ELSE d.vals[i]])
    ELSE PyDict(Append(d.vals, [k |-> key, v |-> value]))

\* Python's ==: dicts compare as mappings, whatever their insertion order.
PyEq(a, b) ==
    IF a.tag = "dict" /\ b.tag = "dict"
    THEN /\ Keys(a) = Keys(b)
         /\ \A key \in Keys(a) : Lookup(a, key) = Lookup(b, key)
    ELSE a = b

(***************************************************************************)
(* JSON.  A text is empty, malformed, or the serialisation of a document;  *)
(* a document is a Python value of JSON's own types (string keys, arrays   *)
(* as lists).                                                              *)
(***************************************************************************)
EmptyText == [kind |-> "empty", doc |-> PyNone]
BadText == [kind |-> "malformed", doc |-> PyNone]
JsonText(d) == [kind |-> "json", doc |-> d]

\* json.dumps writes a tuple as an array and a non-string key as its string.
RECURSIVE ToJson(_)
ToJson(v) ==
    CASE v.tag = "tuple" -> PyList([i \in 1..Len(v.vals) |-> ToJson(v.vals[i])])
      [] v.tag = "list" -> PyList([i \in 1..Len(v.vals) |-> ToJson(v.vals[i])])
      [] v.tag = "dict" ->
            PyDict([i \in 1..Len(v.vals) |->
                [k |-> PyStr(v.vals[i].k.text), v |-> ToJson(v.vals[i].v)]])
      [] OTHER -> v

json_dumps(v) == JsonText(ToJson(v))

\* json.loads: an object with a repeated key keeps the last value.
RECURSIVE FromItems(_, _)
FromItems(items, acc) ==
    IF items = <<>> THEN acc
    ELSE FromItems(Tail(items), DictSet(acc, Head(items).k, Head(items).v))

json_loads(text) ==
    IF text.kind # "json" THEN [ok |-> FALSE, error |-> "JSONDecodeError", val |-> PyNone]
    ELSE [ok |-> TRUE, error |-> "",
          val |-> IF text.doc.tag = "dict" THEN FromItems(text.doc.vals, EmptyDict)
                  ELSE text.doc]

(***************************************************************************)
(* Display text.  A text is the sequence of its pieces; "" is <<>>.        *)
(***************************************************************************)
LineSep == "\n"

\* sep.join(texts)
RECURSIVE Join(_, _)
Join(texts, sep) ==
    IF texts = <<>> THEN <<>>
    ELSE IF Len(texts) = 1 THEN texts[1]
    ELSE texts[1] \o <<sep>> \o Join(Tail(texts), sep)

\* sorted(xs, key=lambda o: o.created_at): Python's sort is stable, so an element
\* goes after the elements already placed whose key is not greater.
RECURSIVE InsertByCreatedAt(_, _)
InsertByCreatedAt(placed, x) ==
    IF placed = <<>> THEN <<x>>
    ELSE IF x.created_at < Head(placed).created_at THEN <<x>> \o placed
    ELSE <<Head(placed)>> \o InsertByCreatedAt(Tail(placed), x)

RECURSIVE SortedByCreatedAt(_)
SortedByCreatedAt(xs) ==
    IF xs = <<>> THEN <<>>
    ELSE InsertByCreatedAt(SortedByCreatedAt(SubSeq(xs, 1, Len(xs) - 1)), xs[Len(xs)])

\* sorted(names): the instance names the model uses, in alphabetical order.
InstanceNames == <<"vm1", "vm2">>
NameRank(n) == CHOOSE i \in 1..Len(InstanceNames) : InstanceNames[i] = n

RECURSIVE InsertByName(_, _)
InsertByName(placed, n) ==
    IF placed = <<>> THEN <<n>>
    ELSE IF NameRank(n) < NameRank(Head(placed)) THEN <<n>> \o placed
    ELSE <<Head(placed)>> \o InsertByName(Tail(placed), n)

RECURSIVE SortedNames(_)
SortedNames(ns) ==
    IF ns = <<>> THEN <<>>
    ELSE InsertByName(SortedNames(SubSeq(ns, 1, Len(ns) - 1)), ns[Len(ns)])

\* "%(id)s %(status)s" % execution.to_dict()
FormatExecution(e) == <<e.id, " ", e.status>>

(***************************************************************************)
(* ReplicaFormatter: the list variant.                                     *)
(***************************************************************************)
ReplicaFormatter_columns == <<"ID", "Instances", "Last tasks execution", "Created">>

\* A sort that is not stable: an element goes before the placed elements of equal key.
RECURSIVE InsertBeforeEqual(_, _)
InsertBeforeEqual(placed, x) ==
    IF placed = <<>> THEN <<x>>
    ELSE IF x.created_at <= Head(placed).created_at THEN <<x>> \o placed
    ELSE <<Head(placed)>> \o InsertBeforeEqual(Tail(placed), x)

RECURSIVE ReplicaFormatter_get_sorted_list_Unstable(_)
ReplicaFormatter_get_sorted_list_Unstable(obj_list) ==
    IF obj_list = <<>> THEN <<>>
    ELSE InsertBeforeEqual(
            ReplicaFormatter_get_sorted_list_Unstable(SubSeq(obj_list, 1, Len(obj_list) - 1)),
            obj_list[Len(obj_list)])

ReplicaFormatter_get_sorted_list(obj_list) == SortedByCreatedAt(obj_list)

\* max(obj.executions, key=...): the first execution of maximal timestamp.
ReplicaFormatter_format_last_execution_FirstMax(obj) ==
    IF obj.executions # <<>>
    THEN LET latest(i) == \A j \in 1..Len(obj.executions) :
                                obj.executions[j].created_at <= obj.executions[i].created_at
             first == CHOOSE i \in 1..Len(obj.executions) :
                        latest(i) /\ \A j \in 1..(i - 1) : ~latest(j)
         IN  FormatExecution(obj.executions[first])
    ELSE <<>>

ReplicaFormatter_format_last_execution(obj) ==
    IF obj.executions # <<>>
    THEN LET ordered == SortedByCreatedAt(obj.executions)
         IN  FormatExecution(ordered[Len(ordered)])
    ELSE <<>>

ReplicaFormatter_get_formatted_data(obj) ==
    << obj.id,
       Join([i \in 1..Len(obj.instances) |-> <<obj.instances[i]>>], "\n"),
       ReplicaFormatter_format_last_execution(obj),
       obj.created_at >>

\* formatter.EntityFormatter.list_objects: the columns, and one row per object of
\* the sorted list.
ReplicaFormatter_list_objects(obj_list) ==
    LET ordered == ReplicaFormatter_get_sorted_list(obj_list)
    IN  [columns |-> ReplicaFormatter_columns,
         rows |-> [i \in 1..Len(ordered) |-> ReplicaFormatter_get_formatted_data(ordered[i])]]

(***************************************************************************)
(* ReplicaDetailFormatter: the detail variant.                             *)
(***************************************************************************)
ReplicaDetailFormatter_columns(show_instances_data) ==
    << "id", "created", "last_updated", "reservation_id", "instances",
       "origin_endpoint_id", "destination_endpoint_id", "destination_environment",
       "source_environment", "network_map", "disk_storage_mappings",
       "storage_backend_mappings", "default_storage_backend", "executions" >>
    \o (IF show_instances_data THEN <<"instances-data">> ELSE <<>>)

ReplicaDetailFormatter_format_instances(obj) ==
    LET ordered == SortedNames(obj.instances)
    IN  Join([i \in 1..Len(ordered) |-> <<ordered[i]>>], LineSep)

ReplicaDetailFormatter_format_executions(executions) ==
    LET ordered == SortedByCreatedAt(executions)
    IN  Join([i \in 1..Len(ordered) |-> FormatExecution(ordered[i])], LineSep)

\* cli_utils.format_json_for_object_property: the property as JSON text.
format_json_for_object_property(obj, prop_name) == json_dumps(obj[prop_name])

\* cli_utils.parse_storage_mappings: (default, backend_mappings, disk_mappings)
parse_storage_mappings(storage_mappings) ==
    [default |-> IF HasKey(storage_mappings, PyStr("default"))
                 THEN Lookup(storage_mappings, PyStr("default")) ELSE PyNone,
     backend_mappings |-> IF HasKey(storage_mappings, PyStr("backend_mappings"))
                 THEN Lookup(storage_mappings, PyStr("backend_mappings")).vals ELSE <<>>,
     disk_mappings |-> IF HasKey(storage_mappings, PyStr("disk_mappings"))
                 THEN Lookup(storage_mappings, PyStr("disk_mappings")).vals ELSE <<>>]

\* cli_utils.format_mapping: one "key=destination" line per entry.
format_mapping(mappings) ==
    Join([i \in 1..Len(mappings) |->
            <<mappings[i].vals[1].v.text, "=", mappings[i].vals[2].v.text>>], LineSep)

ReplicaDetailFormatter_get_formatted_data(obj, show_instances_data) ==
    LET parsed == parse_storage_mappings(obj.storage_mappings)
    IN  << obj.id,
           obj.created_at,
           obj.updated_at,
           obj.reservation_id,
           ReplicaDetailFormatter_format_instances(obj),
           obj.origin_endpoint_id,
           obj.destination_endpoint_id,
           format_json_for_object_property(obj, "destination_environment"),
           format_json_for_object_property(obj, "source_environment"),
           format_json_for_object_property(obj, "network_map"),
           format_mapping(parsed.disk_mappings),
           format_mapping(parsed.backend_mappings),
           parsed.default,
           ReplicaDetailFormatter_format_executions(obj.executions) >>
        \o (IF show_instances_data THEN <<obj.info>> ELSE <<>>)

\* formatter.EntityFormatter.get_formatted_entity: the columns and the one row.
ReplicaDetailFormatter_get_formatted_entity(obj, show_instances_data) ==
    [columns |-> ReplicaDetailFormatter_columns(show_instances_data),
     data |-> ReplicaDetailFormatter_get_formatted_data(obj, show_instances_data)]

\* replica_executions.ReplicaExecutionDetailFormatter().get_formatted_entity
ReplicaExecutionDetailFormatter_get_formatted_entity(execution) ==
    [columns |-> <<"id", "status">>, data |-> <<execution.id, execution.status>>]

(***************************************************************************)
(* The mocks.                                                              *)
(***************************************************************************)
Call(api, args) == [api |-> api, args |-> args]
Raised(error, issued) == [outcome |-> [kind |-> "error", error |-> error], calls |-> issued]
Returned(value, issued) == [outcome |-> [kind |-> "ok", value |-> value], calls |-> issued]

\* The service's endpoints: every assignment of a name (or of none) to the ids.
ServiceIds == <<"id-1", "id-2">>
EndpointNames == {"srcA", "dstB"}
Unlisted == "-"
Listing(names) ==
    LET all == [i \in 1..Len(names) |-> [id |-> ServiceIds[i], name |-> names[i]]]
        listed(e) == e.name # Unlisted
    IN  SelectSeq(all, listed)
Listings == {Listing(names) : names \in [1..Len(ServiceIds) -> EndpointNames \cup {Unlisted}]}

\* endpoints.get_endpoint_id_for_name: one listing call, then a linear search;
\* anything but exactly one match is an error.
get_endpoint_id_for_name(listing, name) ==
    LET named(e) == e.name = name
        found == SelectSeq(listing, named)
        issued == <<Call("endpoints.list", <<>>)>>
    IN  IF Len(found) = 1
        THEN [ok |-> TRUE, error |-> "", val |-> found[1].id, calls |-> issued]
        ELSE [ok |-> FALSE, error |-> "NotFoundError", val |-> "", calls |-> issued]

(***************************************************************************)
(* The mapping parser.  A flag's token is the sequence of its lexemes:     *)
(* <<"disk1", "=", "lun7">> is disk1=lun7, <<"badtoken">> has no "=".      *)
(***************************************************************************)
SplitMapping(token) ==
    IF Len(token) = 3 /\ token[2] = "="
    THEN [ok |-> TRUE, source |-> token[1], destination |-> token[3]]
    ELSE [ok |-> FALSE, source |-> "", destination |-> ""]

MappingsOk(tokens) == \A i \in 1..Len(tokens) : SplitMapping(tokens[i]).ok

MappingList(tokens, key_name) ==
    PyList([i \in 1..Len(tokens) |->
        PyDict(<< [k |-> PyStr(key_name), v |-> PyStr(SplitMapping(tokens[i]).source)],
                  [k |-> PyStr("destination"),
                   v |-> PyStr(SplitMapping(tokens[i]).destination)] >>)])

\* cli_utils.get_storage_mappings_dict_from_args: a malformed token is an error;
\* otherwise the dict of the slots that were given.
get_storage_mappings_dict_from_args(args) ==
    IF ~MappingsOk(args.disk_storage_mappings) \/ ~MappingsOk(args.storage_backend_mappings)
    THEN [ok |-> FALSE, error |-> "MalformedMappingError", val |-> PyNone]
    ELSE LET d0 == EmptyDict
             d1 == IF Truthy(args.default_storage_backend)
                   THEN DictSet(d0, PyStr("default"), args.default_storage_backend)
                   ELSE d0
             d2 == IF args.storage_backend_mappings # <<>>
                   THEN DictSet(d1, PyStr("backend_mappings"),
                                MappingList(args.storage_backend_mappings, "source"))
                   ELSE d1
             d3 == IF args.disk_storage_mappings # <<>>
                   THEN DictSet(d2, PyStr("disk_mappings"),
                                MappingList(args.disk_storage_mappings, "disk_id"))
                   ELSE d2
         IN  [ok |-> TRUE, error |-> "", val |-> d3]

(***************************************************************************)
(* Command-line arguments.  An option's value is absent (None) or a text.  *)
(***************************************************************************)
Absent == [kind |-> "absent", doc |-> PyNone]
SomeObject == PyDict(<<[k |-> PyStr("k"), v |-> PyStr("v")]>>)
ArgTexts == {Absent, EmptyText, BadText, JsonText(EmptyDict), JsonText(SomeObject)}

\* `if args.x:` for an option holding None or a string
ArgSet(text) == text.kind \notin {"absent", "empty"}

\* x = None; if args.x: x = json.loads(args.x)
LoadsIfSet(text) ==
    IF ArgSet(text) THEN json_loads(text)
    ELSE [ok |-> TRUE, error |-> "", val |-> PyNone]

BoundedSeqs(S, n) == UNION {[1..m -> S] : m \in 0..n}
DiskTokens == {<<"disk1", "=", "lun7">>, <<"badtoken">>}
BackendTokens == {<<"ceph", "=", "ssd">>, <<"badtoken">>}
StorageArgs ==
    [default_storage_backend : {PyNone, PyStr(""), PyStr("nfs")},
     disk_storage_mappings : BoundedSeqs(DiskTokens, MaxTokens),
     storage_backend_mappings : BoundedSeqs(BackendTokens, MaxTokens)]

CreateArgs(de, se, nm, st) ==
    [origin_endpoint |-> "srcA", destination_endpoint |-> "dstB",
     destination_environment |-> de, source_environment |-> se, network_map |-> nm,
     instances |-> <<"vm2", "vm1">>,
     default_storage_backend |-> st.default_storage_backend,
     disk_storage_mappings |-> st.disk_storage_mappings,
     storage_backend_mappings |-> st.storage_backend_mappings]

NotesValues == {PyNone, PyStr(""), PyStr("moved")}

UpdateArgs(f, n, de, se, nm, st) ==
    [id |-> "r1", force |-> f, notes |-> n,
     destination_environment |-> de, source_environment |-> se, network_map |-> nm,
     default_storage_backend |-> st.default_storage_backend,
     disk_storage_mappings |-> st.disk_storage_mappings,
     storage_backend_mappings |-> st.storage_backend_mappings]

(***************************************************************************)
(* replicas.create and replicas.update of the service.                     *)
(***************************************************************************)
NoneToEmpty(v) == IF v.tag = "none" THEN EmptyDict ELSE v

CreatedReplica(origin_id, destination_id, source_env, destination_env, instances, network_map, storage_mappings) ==
    [id |-> "r1", created_at |-> 1, updated_at |-> 1, reservation_id |-> "",
     instances |-> instances,
     origin_endpoint_id |-> origin_id, destination_endpoint_id |-> destination_id,
     destination_environment |-> destination_env, source_environment |-> source_env,
     network_map |-> network_map, storage_mappings |-> NoneToEmpty(storage_mappings),
     executions |-> <<>>, info |-> EmptyDict]

UpdateExecution == [id |-> "ex-1", status |-> "RUNNING", created_at |-> 1]

(***************************************************************************)
(* CreateReplica.take_action                                               *)
(***************************************************************************)
ReplicasCreateCall_SameEndpoint(origin_id, destination_id, source_env, destination_env, instances, network_map, storage_mappings) ==
    Call("replicas.create",
         <<origin_id, origin_id, source_env, destination_env, instances, network_map,
           storage_mappings>>)

\* self.app.client_manager.coriolis.replicas.create(...)
ReplicasCreateCall(origin_id, destination_id, source_env, destination_env, instances, network_map, storage_mappings) ==
    Call("replicas.create",
         <<origin_id, destination_id, source_env, destination_env, instances, network_map,
           storage_mappings>>)

CreateReplica_take_action(args, listing) ==
    LET de == LoadsIfSet(args.destination_environment)
        se == LoadsIfSet(args.source_environment)
        nm == LoadsIfSet(args.network_map)
        sm == get_storage_mappings_dict_from_args(args)
        origin == get_endpoint_id_for_name(listing, args.origin_endpoint)
        destination == get_endpoint_id_for_name(listing, args.destination_endpoint)
        create == ReplicasCreateCall(origin.val, destination.val, se.val, de.val,
                                     args.instances, nm.val, sm.val)
        replica == CreatedReplica(create.args[1], create.args[2], create.args[3],
                                  create.args[4], create.args[5], create.args[6],
                                  create.args[7])
    IN  IF ~de.ok THEN Raised(de.error, <<>>)
        ELSE IF ~se.ok THEN Raised(se.error, <<>>)
        ELSE IF ~nm.ok THEN Raised(nm.error, <<>>)
        ELSE IF ~sm.ok THEN Raised(sm.error, <<>>)
        ELSE IF ~origin.ok THEN Raised(origin.error, origin.calls)
        ELSE IF ~destination.ok
             THEN Raised(destination.error, origin.calls \o destination.calls)
        ELSE Returned(ReplicaDetailFormatter_get_formatted_entity(replica, FALSE),
                      origin.calls \o destination.calls \o <<create>>)

(***************************************************************************)
(* UpdateReplica.take_action                                               *)
(***************************************************************************)
SetIfTruthy(d, key, value) == IF Truthy(value) THEN DictSet(d, PyStr(key), value) ELSE d

UpdatedProperties_IfSupplied(destination_env, source_env, storage_mappings, network_map, notes) ==
    LET put(d, key, value) ==
            IF value.tag # "none" THEN DictSet(d, PyStr(key), value) ELSE d
        p1 == put(EmptyDict, "destination_environment", destination_env)
        p2 == put(p1, "source_environment", source_env)
        p3 == put(p2, "storage_mappings", storage_mappings)
        p4 == put(p3, "network_map", network_map)
        p5 == put(p4, "notes", notes)
    IN  p5

\* updated_properties = {}; if x: updated_properties['x'] = x; ...
UpdatedProperties(destination_env, source_env, storage_mappings, network_map, notes) ==
    LET p0 == EmptyDict
        p1 == SetIfTruthy(p0, "destination_environment", destination_env)
        p2 == SetIfTruthy(p1, "source_environment", source_env)
        p3 == SetIfTruthy(p2, "storage_mappings", storage_mappings)
        p4 == SetIfTruthy(p3, "network_map", network_map)
        p5 == SetIfTruthy(p4, "notes", notes)
    IN  p5

ReplicasUpdateCalls_SkipEmpty(id, updated_properties, force) ==
    IF updated_properties.vals = <<>> THEN <<>>
    ELSE <<Call("replicas.update", <<id, updated_properties, force>>)>>

\* self.app.client_manager.coriolis.replicas.update(args.id, updated_properties, args.force)
ReplicasUpdateCalls(id, updated_properties, force) ==
    <<Call("replicas.update", <<id, updated_properties, force>>)>>

UpdateReplica_take_action_UpdateFirst(args) ==
    LET de == LoadsIfSet(args.destination_environment)
        se == LoadsIfSet(args.source_environment)
        nm == LoadsIfSet(args.network_map)
        sm == get_storage_mappings_dict_from_args(args)
        updated_properties == UpdatedProperties(de.val, se.val, sm.val, nm.val, args.notes)
        issued == ReplicasUpdateCalls(args.id, updated_properties, args.force)
    IN  IF ~de.ok THEN Raised(de.error, <<>>)
        ELSE IF ~se.ok THEN Raised(se.error, <<>>)
        ELSE IF ~nm.ok THEN Raised(nm.error, <<>>)
        ELSE IF ~sm.ok THEN Raised(sm.error, issued)
        ELSE Returned(ReplicaExecutionDetailFormatter_get_formatted_entity(UpdateExecution),
                      issued)

UpdateReplica_take_action(args) ==
    LET de == LoadsIfSet(args.destination_environment)
        se == LoadsIfSet(args.source_environment)
        nm == LoadsIfSet(args.network_map)
        sm == get_storage_mappings_dict_from_args(args)
        updated_properties == UpdatedProperties(de.val, se.val, sm.val, nm.val, args.notes)
        issued == ReplicasUpdateCalls(args.id, updated_properties, args.force)
    IN  IF ~de.ok THEN Raised(de.error, <<>>)
        ELSE IF ~se.ok THEN Raised(se.error, <<>>)
        ELSE IF ~nm.ok THEN Raised(nm.error, <<>>)
        ELSE IF ~sm.ok THEN Raised(sm.error, <<>>)
        ELSE Returned(ReplicaExecutionDetailFormatter_get_formatted_entity(UpdateExecution),
                      issued)

(***************************************************************************)
(* ShowReplica, DeleteReplica, DeleteReplicaDisks and ListReplica          *)
(***************************************************************************)
ShowReplica_take_action(args, replica) ==
    Returned(ReplicaDetailFormatter_get_formatted_entity(replica, args.show_instances_data),
             <<Call("replicas.get", <<args.id>>)>>)

DeleteReplica_take_action(args) ==
    Returned(PyNone, <<Call("replicas.delete", <<args.id>>)>>)

DeleteReplicaDisks_take_action(args) ==
    Returned(ReplicaExecutionDetailFormatter_get_formatted_entity(UpdateExecution),
             <<Call("replicas.delete_disks", <<args.id>>)>>)

ListReplica_take_action(obj_list) ==
    Returned(ReplicaFormatter_list_objects(obj_list), <<Call("replicas.list", <<>>)>>)

(***************************************************************************)
(* What the service may hold: executions e1, e2, ... with any creation     *)
(* timestamps, owned by replicas r1, r2, ... with any creation timestamps. *)
(***************************************************************************)
Timestamps == 1..3
Statuses == <<"COMPLETED", "ERROR", "RUNNING">>
ExecutionOf(i, t) ==
    [id |-> "e" \o ToString(i), status |-> Statuses[((i - 1) % Len(Statuses)) + 1],
     created_at |-> t]
ExecutionLists ==
    {[i \in 1..n |-> ExecutionOf(i, ts[i])] : n \in 0..MaxExecs, ts \in [1..MaxExecs -> Timestamps]}

ReplicaOf(i, t, executions) ==
    [id |-> "r" \o ToString(i), created_at |-> t, updated_at |-> t, reservation_id |-> "",
     instances |-> <<"vm2", "vm1">>,
     origin_endpoint_id |-> "id-1", destination_endpoint_id |-> "id-2",
     destination_environment |-> SomeObject, source_environment |-> PyNone,
     network_map |-> SomeObject, storage_mappings |-> EmptyDict,
     executions |-> executions, info |-> SomeObject]

\* The executions of `all` that replica `j` owns, in the order of `all`.
OwnedBy(all, owner, j) ==
    LET idx == {i \in 1..Len(all) : owner[i] = j}
        RECURSIVE pick(_)
        pick(i) == IF i > Len(all) THEN <<>>
                   ELSE (IF i \in idx THEN <<all[i]>> ELSE <<>>) \o pick(i + 1)
    IN  pick(1)

(***************************************************************************)
(* The replica commands as actions.                                        *)
(***************************************************************************)
\* A command runs in a process of its own: one invocation, then the process ends.
NoInvocation == [op |-> "none"]
Idle == inv.op = "none"

Init ==
    /\ inv = NoInvocation
    /\ calls = <<>>
    /\ outcome = [kind |-> "none"]
    /\ vault = <<>>
    /\ endpoints = <<>>
    /\ submitted = <<>>

Invoke(op, args, service, result) ==
    /\ inv' = [op |-> op, args |-> args, service |-> service]
    /\ calls' = result.calls
    /\ outcome' = result.outcome

CreateReplica ==
    /\ Idle
    /\ \E de \in ArgTexts, se \in ArgTexts, nm \in ArgTexts, st \in StorageArgs,
          listing \in Listings :
            LET args == CreateArgs(de, se, nm, st)
            IN  Invoke("replica create", args, listing,
                       CreateReplica_take_action(args, listing))
    /\ UNCHANGED <<vault, endpoints, submitted>>

UpdateReplica ==
    /\ Idle
    /\ \E f \in BOOLEAN, n \in NotesValues, de \in ArgTexts, se \in ArgTexts,
          nm \in ArgTexts, st \in StorageArgs :
            LET args == UpdateArgs(f, n, de, se, nm, st)
            IN  Invoke("replica update", args, <<>>, UpdateReplica_take_action(args))
    /\ UNCHANGED <<vault, endpoints, submitted>>

ShowReplica ==
    /\ Idle
    /\ \E t \in Timestamps, executions \in ExecutionLists, show \in BOOLEAN :
            LET args == [id |-> "r1", show_instances_data |-> show]
                replica == ReplicaOf(1, t, executions)
            IN  Invoke("replica show", args, replica, ShowReplica_take_action(args, replica))
    /\ UNCHANGED <<vault, endpoints, submitted>>

DeleteReplica ==
    /\ Idle
    /\ Invoke("replica delete", [id |-> "r1"], <<>>, DeleteReplica_take_action([id |-> "r1"]))
    /\ UNCHANGED <<vault, endpoints, submitted>>

DeleteReplicaDisks ==
    /\ Idle
    /\ Invoke("replica delete-disks", [id |-> "r1"], <<>>,
              DeleteReplicaDisks_take_action([id |-> "r1"]))
    /\ UNCHANGED <<vault, endpoints, submitted>>

ListReplica ==
    /\ Idle
    /\ \E n \in 0..MaxReplicas, all \in ExecutionLists :
       \E created \in [1..n -> Timestamps], owner \in [1..Len(all) -> 1..n] :
            LET obj_list == [j \in 1..n |-> ReplicaOf(j, created[j], OwnedBy(all, owner, j))]
            IN  Invoke("replica list", <<>>, obj_list, ListReplica_take_action(obj_list))
    /\ UNCHANGED <<vault, endpoints, submitted>>

Next ==
    \/ CreateReplica
    \/ UpdateReplica
    \/ ShowReplica
    \/ DeleteReplica
    \/ DeleteReplicaDisks
    \/ ListReplica

Spec == Init /\ [][Next]_vars

(***************************************************************************)
(* samples/endpoint_samples.py.  The script's helpers run one after the    *)
(* other in one process, against the service and the vault; an exception   *)
(* ends the script.                                                        *)
(***************************************************************************)
Providers == {"openstack", "oci"}
PlatformTypes == {"oci", "azure"}
Href(i) == PyStr("href-" \o ToString(i))
EndpointId(i) == "ep-" \o ToString(i)

\* Connection-info payloads a caller may pass: dicts of up to MaxFields keys.
PayloadKeys == {PyStr("user"), PyStr("secret_ref"), PyInt("1")}
PayloadValues == {PyStr("pw"), PyList(<<PyStr("a")>>), PyTuple(<<PyStr("a")>>)}
Payloads ==
    {PyDict([i \in 1..n |-> [k |-> ks[i], v |-> vs[i]]]) :
        n \in 0..MaxFields,
        ks \in {f \in [1..MaxFields -> PayloadKeys] :
                    \A i, j \in 1..MaxFields : f[i] = f[j] => i = j},
        vs \in [1..MaxFields -> PayloadValues]}

provider_schema_type_map == [destination |-> 1, source |-> 2, connection |-> 16]

get_schema_for_plugin(platform_type, schema_type) ==
    Returned("schema",
             <<Call("providers.schemas_list",
                    <<platform_type, provider_schema_type_map[schema_type]>>)>>)

\* store_barbican_secret_for_coriolis: serialise, create the secret, store it.
store_barbican_secret_for_coriolis(secrets, secret_info, name, fails) ==
    LET payload == json_dumps(secret_info)
        secret == [name |-> name, payload |-> payload,
                   payload_content_type |-> "application/json"]
        issued == <<Call("secrets.store", <<name, payload>>)>>
    IN  IF fails
        THEN [ok |-> FALSE, error |-> "SecretStoreError", val |-> PyNone,
              calls |-> issued, vault |-> secrets]
        ELSE [ok |-> TRUE, error |-> "", val |-> Href(Len(secrets) + 1),
              calls |-> issued, vault |-> Append(secrets, secret)]

SecretRefStub_Merged(connection_info, secret_ref) ==
    DictSet(connection_info, PyStr("secret_ref"), secret_ref)

\* connection_info = {'secret_ref': secret_ref}
SecretRefStub(connection_info, secret_ref) ==
    PyDict(<<[k |-> PyStr("secret_ref"), v |-> secret_ref]>>)

EndpointsCreate(stored, name, platform_type, connection_info, description) ==
    Append(stored, [id |-> EndpointId(Len(stored) + 1), name |-> name,
                    type |-> platform_type, connection_info |-> connection_info,
                    description |-> description])

Outcome(result, secrets, stored) ==
    [outcome |-> result.outcome, calls |-> result.calls, vault |-> secrets,
     endpoints |-> stored]

\* The secret is stored before the platform type is checked.
create_endpoint_StoreFirst(secrets, stored, name, platform_type, connection_info, barbican, description, fault) ==
    LET listed == <<Call("providers.list", <<>>)>>
        store == store_barbican_secret_for_coriolis(
                    secrets, connection_info, "Coriolis Endpoint " \o name, fault = "vault")
        sent == IF barbican THEN SecretRefStub(connection_info, store.val)
                ELSE connection_info
        early == IF barbican THEN store.calls ELSE <<>>
        secrets2 == IF barbican THEN store.vault ELSE secrets
        created == <<Call("endpoints.create", <<name, platform_type, sent, description>>)>>
    IN  IF barbican /\ ~store.ok
        THEN Outcome(Raised(store.error, early), secrets2, stored)
        ELSE IF platform_type \notin Providers
        THEN Outcome(Raised("ValueError", early \o listed), secrets2, stored)
        ELSE IF fault = "service"
        THEN Outcome(Raised("RemoteServiceError", early \o listed \o created),
                     secrets2, stored)
        ELSE Outcome(Returned(EndpointId(Len(stored) + 1), early \o listed \o created),
                     secrets2,
                     EndpointsCreate(stored, name, platform_type, sent, description))

create_endpoint(secrets, stored, name, platform_type, connection_info, barbican, description, fault) ==
    LET listed == <<Call("providers.list", <<>>)>>
        store == store_barbican_secret_for_coriolis(
                    secrets, connection_info, "Coriolis Endpoint " \o name, fault = "vault")
        sent == IF barbican THEN SecretRefStub(connection_info, store.val)
                ELSE connection_info
        stored_calls == IF barbican THEN store.calls ELSE <<>>
        secrets2 == IF barbican THEN store.vault ELSE secrets
        created == <<Call("endpoints.create", <<name, platform_type, sent, description>>)>>
    IN  IF platform_type \notin Providers
        THEN Outcome(Raised("ValueError", listed), secrets, stored)
        ELSE IF barbican /\ ~store.ok
        THEN Outcome(Raised(store.error, listed \o stored_calls), secrets2, stored)
        ELSE IF fault = "service"
        THEN Outcome(Raised("RemoteServiceError", listed \o stored_calls \o created),
                     secrets2, stored)
        ELSE Outcome(Returned(EndpointId(Len(stored) + 1),
                              listed \o stored_calls \o created),
                     secrets2,
                     EndpointsCreate(stored, name, platform_type, sent, description))

\* barbican.secrets.get(ref): the secret stored under that href, if any.
HrefIndex(secrets, ref) == {i \in 1..Len(secrets) : ref = Href(i)}

get_endpoint_connection_info_NoVault(secrets, stored, endpoint) ==
    Returned(stored[endpoint].connection_info,
             <<Call("endpoints.get", <<stored[endpoint].id>>)>>)

get_endpoint_connection_info(secrets, stored, endpoint) ==
    LET endpoint_conn_info == stored[endpoint].connection_info
        got == <<Call("endpoints.get", <<stored[endpoint].id>>)>>
        ref == Lookup(endpoint_conn_info, PyStr("secret_ref"))
        fetched == <<Call("secrets.get", <<ref>>)>>
        found == HrefIndex(secrets, ref)
        secret == secrets[CHOOSE i \in found : TRUE]
        decoded == json_loads(secret.payload)
    IN  IF ~HasKey(endpoint_conn_info, PyStr("secret_ref"))
        THEN Returned(endpoint_conn_info, got)
        ELSE IF found = {} THEN Raised("SecretStoreError", got \o fetched)
        ELSE IF ~decoded.ok THEN Raised(decoded.error, got \o fetched)
        ELSE Returned(decoded.val, got \o fetched)

ValidationFailed(error_msg, issued) ==
    [outcome |-> [kind |-> "error", error |-> "Exception",
                  message |-> <<"Endpoint validation failed: ", error_msg>>],
     calls |-> issued]

validate_endpoint_AlwaysRaise(endpoint, raise_on_error, is_valid, error_msg) ==
    LET issued == <<Call("endpoints.validate_connection", <<endpoint>>)>>
    IN  IF ~is_valid THEN ValidationFailed(error_msg, issued)
        ELSE Returned(<<is_valid, error_msg>>, issued)

\* (is_valid, error_msg) is what validate_connection answered.
validate_endpoint(endpoint, raise_on_error, is_valid, error_msg) ==
    LET issued == <<Call("endpoints.validate_connection", <<endpoint>>)>>
    IN  IF raise_on_error /\ ~is_valid THEN ValidationFailed(error_msg, issued)
        ELSE Returned(<<is_valid, error_msg>>, issued)

Running == outcome.kind # "error"
Faults == {"none", "vault", "service"}
ValidationMessages == {"", "bad credentials"}

CreateEndpoint ==
    /\ Running
    /\ Len(endpoints) < MaxEndpoints
    /\ \E platform_type \in PlatformTypes, connection_info \in Payloads,
          barbican \in BOOLEAN, fault \in Faults :
            LET r == create_endpoint(vault, endpoints, "Testing", platform_type,
                                     connection_info, barbican, "sample", fault)
            IN  /\ Invoke("create_endpoint",
                          [platform_type |-> platform_type,
                           connection_info |-> connection_info,
                           barbican |-> barbican, fault |-> fault], <<>>, r)
                /\ vault' = r.vault
                /\ endpoints' = r.endpoints
                /\ submitted' = IF r.outcome.kind = "ok"
                                THEN Append(submitted, [payload |-> connection_info,
                                                        barbican |-> barbican])
                                ELSE submitted

GetEndpointConnectionInfo ==
    /\ Running
    /\ \E endpoint \in 1..Len(endpoints) :
            Invoke("get_endpoint_connection_info", [endpoint |-> endpoint], <<>>,
                   get_endpoint_connection_info(vault, endpoints, endpoint))
    /\ UNCHANGED <<vault, endpoints, submitted>>

\* main() validates the endpoint it has just created.
ValidateEndpoint ==
    /\ Running
    /\ \E endpoint \in {Len(endpoints)} \ {0}, raise_on_error \in BOOLEAN,
          is_valid \in BOOLEAN, error_msg \in ValidationMessages :
            Invoke("validate_endpoint",
                   [endpoint |-> endpoint, raise_on_error |-> raise_on_error],
                   [is_valid |-> is_valid, error_msg |-> error_msg],
                   validate_endpoint(endpoints[endpoint].id, raise_on_error,
                                     is_valid, error_msg))
    /\ UNCHANGED <<vault, endpoints, submitted>>

\* main() fetches the schema before it creates anything.
GetSchemaForPlugin ==
    /\ Running
    /\ endpoints = <<>>
    /\ \E platform_type \in PlatformTypes, schema_type \in DOMAIN provider_schema_type_map :
            Invoke("get_schema_for_plugin",
                   [platform_type |-> platform_type, schema_type |-> schema_type], <<>>,
                   get_schema_for_plugin(platform_type, schema_type))
    /\ UNCHANGED <<vault, endpoints, submitted>>

NextEndpoint ==
    \/ CreateEndpoint
    \/ GetEndpointConnectionInfo
    \/ ValidateEndpoint
    \/ GetSchemaForPlugin

SpecEndpoint == Init /\ [][NextEndpoint]_vars

(***************************************************************************)
(* Vocabulary of the properties.                                           *)
(***************************************************************************)
ValidationErrors == {"JSONDecodeError", "MalformedMappingError"}
RemoteApis == {"endpoints.list", "replicas.create", "replicas.update"}
RemoteCalls == {i \in 1..Len(calls) : calls[i].api \in RemoteApis}
CallsOf(api) == {i \in 1..Len(calls) : calls[i].api = api}

IsCreate == inv.op = "replica create"
IsUpdate == inv.op = "replica update"

\* What the caller typed, read off the arguments alone.
TextMalformed(text) == text.kind = "malformed"
TokenMalformed(token) == \A i \in 1..Len(token) : token[i] # "="
ArgsMalformed(args) ==
    \/ TextMalformed(args.destination_environment)
    \/ TextMalformed(args.source_environment)
    \/ TextMalformed(args.network_map)
    \/ \E i \in 1..Len(args.disk_storage_mappings) :
            TokenMalformed(args.disk_storage_mappings[i])
    \/ \E i \in 1..Len(args.storage_backend_mappings) :
            TokenMalformed(args.storage_backend_mappings[i])

\* C2: in replica create and replica update, malformed input (a mapping token
\* without "=", undecodable JSON) ends the command in a validation error, and a
\* command that ends in a validation error has issued no remote call at all.
C2_FailFast ==
    (IsCreate \/ IsUpdate) =>
        /\ ArgsMalformed(inv.args) =>
                outcome.kind = "error" /\ outcome.error \in ValidationErrors
        /\ (outcome.kind = "error" /\ outcome.error \in ValidationErrors) =>
                RemoteCalls = {} /\ calls = <<>>

C2_Witness ==
    /\ IsUpdate
    /\ inv.args.disk_storage_mappings = <<<<"badtoken">>>>
    /\ inv.args.destination_environment.kind = "json"
    /\ outcome.kind = "error"
    /\ outcome.error = "MalformedMappingError"

(***************************************************************************)
(* C3, C4: the patch of replica update.                                    *)
(***************************************************************************)
PatchFields == {"destination_environment", "source_environment", "storage_mappings",
                "network_map", "notes"}
JsonFields == {"destination_environment", "source_environment", "network_map"}
Patch == calls[1].args[2]
Updated == IsUpdate /\ outcome.kind = "ok"

StorageGiven(args) ==
    \/ args.default_storage_backend.tag # "none"
    \/ args.disk_storage_mappings # <<>>
    \/ args.storage_backend_mappings # <<>>

\* The caller gave the option on the command line.
Provided(args, field) ==
    CASE field \in JsonFields -> args[field].kind # "absent"
      [] field = "notes" -> args.notes.tag # "none"
      [] OTHER -> StorageGiven(args)

\* The value the caller gave, decoded.
ProvidedValue(args, field) ==
    CASE field \in JsonFields -> args[field].doc
      [] field = "notes" -> args.notes
      [] OTHER -> get_storage_mappings_dict_from_args(args).val

\* The caller gave the option a value that is not empty: a non-empty text that
\* decodes to a non-empty document, a non-empty note, a non-empty storage slot.
ProvidedNonEmpty(args, field) ==
    CASE field \in JsonFields -> args[field].kind = "json" /\ Truthy(args[field].doc)
      [] field = "notes" -> args.notes.tag = "str" /\ args.notes.text # ""
      [] OTHER -> \/ (args.default_storage_backend.tag = "str"
                        /\ args.default_storage_backend.text # "")
                  \/ args.disk_storage_mappings # <<>>
                  \/ args.storage_backend_mappings # <<>>

\* C3 as claimed: a field is in the patch if and only if the caller provided it.
C3_PatchIffProvided ==
    Updated =>
        \A field \in PatchFields :
            /\ HasKey(Patch, PyStr(field)) <=> Provided(inv.args, field)
            /\ HasKey(Patch, PyStr(field)) =>
                    Lookup(Patch, PyStr(field)) = ProvidedValue(inv.args, field)

\* C3 amended: a field is in the patch if and only if the caller provided it
\* with a non-empty value, and then with the provided, decoded value; a field
\* the caller did not provide is never in the patch.
C3_PatchIffProvidedNonEmpty ==
    Updated =>
        /\ Len(calls) = 1 /\ calls[1].api = "replicas.update"
        /\ Keys(Patch) \subseteq {PyStr(field) : field \in PatchFields}
        /\ \A field \in PatchFields :
            /\ HasKey(Patch, PyStr(field)) <=> ProvidedNonEmpty(inv.args, field)
            /\ HasKey(Patch, PyStr(field)) =>
                    Lookup(Patch, PyStr(field)) = ProvidedValue(inv.args, field)
            /\ ~Provided(inv.args, field) => ~HasKey(Patch, PyStr(field))

C3_Witness ==
    /\ Updated
    /\ inv.args.destination_environment = JsonText(SomeObject)
    /\ inv.args.source_environment = JsonText(EmptyDict)
    /\ inv.args.network_map = Absent
    /\ inv.args.notes = PyStr("")
    /\ inv.args.disk_storage_mappings # <<>>
    /\ Keys(Patch) = {PyStr("destination_environment"), PyStr("storage_mappings")}

NothingSet(args) ==
    /\ ~ArgSet(args.destination_environment)
    /\ ~ArgSet(args.source_environment)
    /\ ~ArgSet(args.network_map)
    /\ ~Truthy(args.notes)
    /\ ~Truthy(args.default_storage_backend)
    /\ args.disk_storage_mappings = <<>>
    /\ args.storage_backend_mappings = <<>>

\* C4: replica update with no updatable field set still issues exactly one
\* replicas.update call, carrying the empty patch and the force flag, and
\* returns that call's execution, formatted.
C4_EmptyPatchStillSent ==
    (IsUpdate /\ NothingSet(inv.args)) =>
        /\ outcome.kind = "ok"
        /\ Len(calls) = 1
        /\ calls[1].api = "replicas.update"
        /\ calls[1].args = <<inv.args.id, EmptyDict, inv.args.force>>
        /\ outcome.value.data = <<UpdateExecution.id, UpdateExecution.status>>

C4_Witness ==
    /\ IsUpdate
    /\ NothingSet(inv.args)
    /\ inv.args.force
    /\ inv.args.notes = PyNone
    /\ inv.args.destination_environment = Absent
    /\ Len(calls) = 1

(***************************************************************************)
(* C5: name resolution in replica create.                                  *)
(***************************************************************************)
Matches(listing, name) == {i \in 1..Len(listing) : listing[i].name = name}
UniqueId(listing, name) == listing[CHOOSE i \in Matches(listing, name) : TRUE].id
Resolvable(listing, name) == Cardinality(Matches(listing, name)) = 1

\* C5: replica create resolves the origin and the destination endpoint names
\* (one listing each) before it issues replicas.create, which carries the two
\* resolved identifiers; when either name has no match or several, the command
\* ends in an error and replicas.create is never called.
C5_ResolveBeforeCreate ==
    IsCreate =>
        /\ \A i \in CallsOf("replicas.create") :
                /\ i = 3
                /\ calls[1].api = "endpoints.list" /\ calls[2].api = "endpoints.list"
                /\ Resolvable(inv.service, inv.args.origin_endpoint)
                /\ Resolvable(inv.service, inv.args.destination_endpoint)
                /\ calls[i].args[1] = UniqueId(inv.service, inv.args.origin_endpoint)
                /\ calls[i].args[2] = UniqueId(inv.service, inv.args.destination_endpoint)
        /\ (~Resolvable(inv.service, inv.args.origin_endpoint)
                \/ ~Resolvable(inv.service, inv.args.destination_endpoint)) =>
                /\ outcome.kind = "error"
                /\ CallsOf("replicas.create") = {}
        /\ (outcome.kind = "error" /\ outcome.error = "NotFoundError") =>
                CallsOf("replicas.create") = {}
        /\ (~ArgsMalformed(inv.args)
                /\ Resolvable(inv.service, inv.args.origin_endpoint)
                /\ Resolvable(inv.service, inv.args.destination_endpoint)) =>
                outcome.kind = "ok" /\ CallsOf("replicas.create") = {3}

C5_Witness ==
    /\ IsCreate
    /\ outcome.kind = "ok"
    /\ calls[3].api = "replicas.create"
    /\ calls[3].args[1] = "id-2"
    /\ calls[3].args[2] = "id-1"

C5_WitnessUnresolved ==
    /\ IsCreate
    /\ outcome.kind = "error"
    /\ outcome.error = "NotFoundError"
    /\ Len(calls) = 2

(***************************************************************************)
(* C6, C7: the projections of the formatters.                              *)
(***************************************************************************)
\* The lines of a text: its pieces between the line separators.
RECURSIVE SplitLines(_)
SplitLines(text) ==
    IF text = <<>> THEN <<>>
    ELSE LET seps == {i \in 1..Len(text) : text[i] = LineSep}
         IN  IF seps = {} THEN <<text>>
             ELSE LET first == CHOOSE i \in seps : \A j \in seps : i <= j
                  IN  <<SubSeq(text, 1, first - 1)>>
                        \o SplitLines(SubSeq(text, first + 1, Len(text)))

Bijections(n) == {p \in [1..n -> 1..n] : \A i, j \in 1..n : p[i] = p[j] => i = j}

\* `lines` renders every execution exactly once, oldest first, each as "<id> <status>".
IsHistoryOf(lines, executions) ==
    /\ Len(lines) = Len(executions)
    /\ \E p \in Bijections(Len(executions)) :
        /\ \A i \in 1..Len(lines) :
                lines[i] = <<executions[p[i]].id, " ", executions[p[i]].status>>
        /\ \A i, j \in 1..Len(lines) :
                i <= j => executions[p[i]].created_at <= executions[p[j]].created_at

\* `line` renders an execution whose timestamp is the maximum; "" when there is none.
IsLastOf(line, executions) ==
    IF executions = <<>> THEN line = <<>>
    ELSE \E i \in 1..Len(executions) :
            /\ line = <<executions[i].id, " ", executions[i].status>>
            /\ \A j \in 1..Len(executions) :
                    executions[j].created_at <= executions[i].created_at

IsShow == inv.op = "replica show"
IsList == inv.op = "replica list"
ShownHistory == SplitLines(outcome.value.data[14])
ListedReplica(id) == inv.service[CHOOSE j \in 1..Len(inv.service) : inv.service[j].id = id]

\* C6: the full history lists every execution exactly once, by non-decreasing
\* creation timestamp, each as "<id> <status>"; the last-execution projection
\* renders an execution of maximal creation timestamp, equals the final entry
\* of that replica's full history, and is "" when the replica has none.
C6_ExecutionProjections ==
    /\ IsShow => IsHistoryOf(ShownHistory, inv.service.executions)
    /\ IsList =>
        \A r \in 1..Len(outcome.value.rows) :
            LET row == outcome.value.rows[r]
                executions == ListedReplica(row[1]).executions
                history == SplitLines(ReplicaDetailFormatter_format_executions(executions))
            IN  /\ IsLastOf(row[3], executions)
                /\ IsHistoryOf(history, executions)
                /\ executions # <<>> => row[3] = history[Len(history)]
                /\ executions = <<>> => row[3] = <<>>

\* A listed replica with three executions, the two newest of equal timestamp.
C6_Witness ==
    /\ IsList
    /\ \E r \in 1..Len(outcome.value.rows) :
        LET executions == ListedReplica(outcome.value.rows[r][1]).executions
        IN  /\ Len(executions) = 3
            /\ executions[1].created_at = 3
            /\ executions[2].created_at = 1
            /\ executions[3].created_at = 3
            /\ outcome.value.rows[r][3] = <<executions[3].id, " ", executions[3].status>>

C6_WitnessShow ==
    /\ IsShow
    /\ Len(inv.service.executions) = 3
    /\ inv.service.executions[1].created_at = 3
    /\ inv.service.executions[2].created_at = 2
    /\ inv.service.executions[3].created_at = 1
    /\ ShownHistory = << <<"e3", " ", "RUNNING">>, <<"e2", " ", "ERROR">>,
                         <<"e1", " ", "COMPLETED">> >>

InputIndex(id) == CHOOSE j \in 1..Len(inv.service) : inv.service[j].id = id

\* C7: the list formatter emits exactly one row per input replica, in
\* non-decreasing order of creation timestamp, replicas of equal creation
\* timestamp keeping their input order.
C7_ListRows ==
    IsList =>
        LET rows == outcome.value.rows
            obj_list == inv.service
        IN  /\ Len(rows) = Len(obj_list)
            /\ \A j \in 1..Len(obj_list) :
                    Cardinality({r \in 1..Len(rows) : rows[r][1] = obj_list[j].id}) = 1
            /\ \A r \in 1..Len(rows) :
                    /\ \E j \in 1..Len(obj_list) : rows[r][1] = obj_list[j].id
                    /\ rows[r][4] = ListedReplica(rows[r][1]).created_at
            /\ \A q, r \in 1..Len(rows) :
                    q < r =>
                        /\ rows[q][4] <= rows[r][4]
                        /\ rows[q][4] = rows[r][4] =>
                                InputIndex(rows[q][1]) < InputIndex(rows[r][1])

\* Two replicas, given newest first, or of equal timestamp.
C7_Witness ==
    /\ IsList
    /\ Len(inv.service) = 2
    /\ inv.service[1].created_at = inv.service[2].created_at
    /\ Len(outcome.value.rows) = 2
    /\ outcome.value.rows[1][1] = "r1"

C7_WitnessReordered ==
    /\ IsList
    /\ Len(inv.service) = 2
    /\ inv.service[1].created_at > inv.service[2].created_at
    /\ outcome.value.rows[1][1] = "r2"

(***************************************************************************)
(* C1, C8, C9, C10: the endpoint helpers.                                  *)
(***************************************************************************)
IsCreateEndpoint == inv.op = "create_endpoint"
IsGetInfo == inv.op = "get_endpoint_connection_info"
IsValidate == inv.op = "validate_endpoint"
VaultApis == {"secrets.store", "secrets.get"}
VaultCalls == {i \in 1..Len(calls) : calls[i].api \in VaultApis}
Items(d) == {d.vals[i] : i \in 1..Len(d.vals)}

\* C1: with a vault handle, the connection_info handed to endpoints.create is
\* exactly {secret_ref: <href the vault store returned>}, the vault holds the
\* serialised payload under that href, and no field of the raw payload is in
\* what endpoints.create receives; with no vault handle, endpoints.create
\* receives the caller's payload unchanged and the vault is not called.
C1_OnlySecretRefReachesCreate ==
    IsCreateEndpoint =>
        \A i \in CallsOf("endpoints.create") :
            LET sent == calls[i].args[3]
                raw == inv.args.connection_info
            IN  IF inv.args.barbican
                THEN /\ Keys(sent) = {PyStr("secret_ref")}
                     /\ Len(sent.vals) = 1
                     /\ Lookup(sent, PyStr("secret_ref")) = Href(Len(vault))
                     /\ vault[Len(vault)].payload = json_dumps(raw)
                     /\ Items(sent) \cap Items(raw) = {}
                     /\ CallsOf("secrets.store") # {}
                ELSE /\ sent = raw
                     /\ VaultCalls = {}

C1_Witness ==
    /\ IsCreateEndpoint
    /\ outcome.kind = "ok"
    /\ inv.args.barbican
    /\ inv.args.connection_info = PyDict(<<[k |-> PyStr("secret_ref"), v |-> PyStr("pw")]>>)
    /\ calls[3].api = "endpoints.create"
    /\ calls[3].args[3] = PyDict(<<[k |-> PyStr("secret_ref"), v |-> Href(1)]>>)

C1_WitnessNoVault ==
    /\ IsCreateEndpoint
    /\ outcome.kind = "ok"
    /\ ~inv.args.barbican
    /\ inv.args.connection_info.vals # <<>>
    /\ Len(calls) = 2

\* A payload of JSON's own types: string keys, and strings and lists as values.
RECURSIVE JsonNative(_)
JsonNative(v) ==
    CASE v.tag = "tuple" -> FALSE
      [] v.tag = "list" -> \A i \in 1..Len(v.vals) : JsonNative(v.vals[i])
      [] v.tag = "dict" -> \A i \in 1..Len(v.vals) :
                                v.vals[i].k.tag = "str" /\ JsonNative(v.vals[i].v)
      [] OTHER -> TRUE

Retrieved == IsGetInfo /\ outcome.kind = "ok"
StoredInfo == endpoints[inv.args.endpoint].connection_info
Given == submitted[inv.args.endpoint]

\* C8 as claimed: what get_endpoint_connection_info returns for an endpoint
\* created through the vault equals the payload create_endpoint was given; an
\* endpoint whose stored connection-info has no secret_ref key gets it back as
\* it is, without a vault call.
C8_RetrievalReturnsPayload ==
    IsGetInfo =>
        /\ Given.barbican => outcome.kind = "ok" /\ PyEq(outcome.value, Given.payload)
        /\ ~HasKey(StoredInfo, PyStr("secret_ref")) =>
                outcome.kind = "ok" /\ outcome.value = StoredInfo /\ VaultCalls = {}

\* C8 amended: the same, for the payloads of JSON's own types (string keys, no
\* tuples); for any payload stored through the vault the retrieval succeeds
\* and fetches the secret from the vault.
C8_RetrievalReturnsJsonPayload ==
    IsGetInfo =>
        /\ Given.barbican =>
                /\ outcome.kind = "ok"
                /\ calls[Len(calls)].api = "secrets.get"
                /\ JsonNative(Given.payload) => PyEq(outcome.value, Given.payload)
        /\ ~HasKey(StoredInfo, PyStr("secret_ref")) =>
                outcome.kind = "ok" /\ outcome.value = StoredInfo /\ VaultCalls = {}

C8_Witness ==
    /\ Retrieved
    /\ Given.barbican
    /\ Given.payload = PyDict(<<[k |-> PyStr("user"), v |-> PyList(<<PyStr("a")>>)]>>)
    /\ outcome.value = Given.payload
    /\ Len(calls) = 2

\* C9: validate_endpoint returns the (is_valid, message) pair validate_connection
\* answered, except when raise_on_error is set and is_valid is false: then it
\* raises an error whose message carries the service's message.
C9_ValidateRaisesOnlyOnRequest ==
    IsValidate =>
        /\ Len(calls) = 1 /\ calls[1].api = "endpoints.validate_connection"
        /\ IF inv.args.raise_on_error /\ ~inv.service.is_valid
           THEN /\ outcome.kind = "error"
                /\ \E i \in 1..Len(outcome.message) :
                        outcome.message[i] = inv.service.error_msg
           ELSE /\ outcome.kind = "ok"
                /\ outcome.value = <<inv.service.is_valid, inv.service.error_msg>>

C9_Witness ==
    /\ IsValidate
    /\ ~inv.args.raise_on_error
    /\ ~inv.service.is_valid
    /\ outcome.kind = "ok"
    /\ outcome.value = <<FALSE, "bad credentials">>

C9_WitnessRaised ==
    /\ IsValidate
    /\ inv.args.raise_on_error
    /\ outcome.kind = "error"
    /\ outcome.message = <<"Endpoint validation failed: ", "bad credentials">>

\* C10: create_endpoint lists the providers first, then (only with a vault
\* handle) stores the secret, then creates the endpoint.  A platform type the
\* service does not provide ends it in an error with nothing stored and no
\* endpoint created; a failed vault store leaves no endpoint created; one
\* invocation stores at most one secret and creates at most one endpoint, and
\* never creates the endpoint before the secret it refers to is stored.
C10_CreateEndpointOrder ==
    [][ inv'.op = "create_endpoint" =>
        LET stores == {i \in 1..Len(calls') : calls'[i].api = "secrets.store"}
            creates == {i \in 1..Len(calls') : calls'[i].api = "endpoints.create"}
        IN  /\ calls'[1].api = "providers.list"
            /\ \A i \in 2..Len(calls') : calls'[i].api # "providers.list"
            /\ Cardinality(stores) <= 1 /\ Cardinality(creates) <= 1
            /\ Len(vault') - Len(vault) \in {0, 1}
            /\ Len(vault') - Len(vault) <= Cardinality(stores)
            /\ Len(endpoints') - Len(endpoints) \in {0, 1}
            /\ Len(endpoints') - Len(endpoints) <= Cardinality(creates)
            /\ stores # {} => inv'.args.barbican
            /\ (inv'.args.barbican /\ creates # {}) =>
                    /\ stores # {}
                    /\ \A i \in stores, j \in creates : i < j
                    /\ Len(vault') = Len(vault) + 1
                    /\ Lookup(calls'[CHOOSE j \in creates : TRUE].args[3], PyStr("secret_ref"))
                            = Href(Len(vault'))
            /\ inv'.args.platform_type \notin Providers =>
                    /\ outcome'.kind = "error"
                    /\ calls' = <<Call("providers.list", <<>>)>>
                    /\ vault' = vault /\ endpoints' = endpoints
            /\ (inv'.args.barbican /\ inv'.args.fault = "vault") =>
                    /\ outcome'.kind = "error"
                    /\ creates = {}
                    /\ endpoints' = endpoints
            /\ (inv'.args.platform_type \in Providers /\ inv'.args.fault = "none") =>
                    /\ outcome'.kind = "ok"
                    /\ Len(endpoints') = Len(endpoints) + 1
      ]_vars

C10_Witness ==
    /\ IsCreateEndpoint
    /\ outcome.kind = "ok"
    /\ inv.args.barbican
    /\ Len(calls) = 3
    /\ calls[1].api = "providers.list"
    /\ calls[2].api = "secrets.store"
    /\ calls[3].api = "endpoints.create"
    /\ Len(vault) = 1 /\ Len(endpoints) = 1

C10_WitnessRejected ==
    /\ IsCreateEndpoint
    /\ inv.args.platform_type = "azure"
    /\ inv.args.barbican
    /\ outcome.kind = "error" /\ outcome.error = "ValueError"
    /\ vault = <<>> /\ endpoints = <<>>

====
